---- MODULE Spec2Model ----
(***************************************************************************)
(* Model of simtrans' VRML reader/writer (simtrans/vrml.py) and Collada    *)
(* reader (simtrans/collada.py): the kinematic tree reconstruction done by *)
(* VRMLWriter.write, the body construction done by VRMLReader.read, and    *)
(* the mesh records built by VRMLReader.readLink and                       *)
(* ColladaReader.convertchild.                                             *)
(***************************************************************************)
EXTENDS Integers, Sequences, FiniteSets, TLC

(***************************************************************************)
(* Bounds of the explored inputs.                                          *)
(***************************************************************************)
MaxJoints == 3
MaxNamed == 2
MaxExtra == 1
MaxVertices == 4
MaxTriangles == 2
MaxNodes == 2
MaxReuse == 1

\* Link names of the explored bodies and the two names vrml.py hard-codes.
Names == {"A", "B", "C"}
NameOrder == <<"A", "B", "C">>
World == "world"
DefaultRoot == "waist"

\* model.JointModel.J_* tags and one tag outside the known set.
JointTypes == {"J_FIXED", "J_REVOLUTE", "J_PRISMATIC", "J_SCREW", "J_OTHER"}

\* Depth at which the Python interpreter gives up on a recursion
\* ("maximum recursion depth exceeded"); any acyclic body of the explored
\* size stays below it.
RecursionLimit == MaxJoints + 2

VARIABLES
    pc,        \* next call: "read" (VRMLReader.read) | "write" (VRMLWriter.write)
               \*   | "collada" (ColladaReader.read) | "done"
    mdata,     \* the BodyModel: [links, joints]
    linkmap,   \* VRMLWriter._linkmap
    roots,     \* VRMLWriter._roots
    root,      \* write: name of the chosen root
    rmodel,    \* write: rmodel['children'], the nested tree handed to the template
    links,     \* write: names of the non empty links
    joints,    \* write: names of the joints with parent
    jointmap,  \* write: joint name -> jointId
    exc,       \* exception that ended the last call, "none" if it returned
    hrp,       \* the BodyInfo the model loader returned to VRMLReader.read
    doc,       \* the collada document given to ColladaReader.read
    materials, \* ColladaReader._materials
    mesh       \* the MeshTransformData ColladaReader.read returned

vars == <<pc, mdata, linkmap, roots, root, rmodel, links, joints, jointmap, exc,
          hrp, doc, materials, mesh>>

(***************************************************************************)
(* Helpers on sequences and dictionaries.                                  *)
(***************************************************************************)
Range(s) == {s[i] : i \in DOMAIN s}

\* Python dict: a function from the set of its keys.
EmptyDict == [k \in {} |-> 0]

DictSet(d, k, v) == [x \in (DOMAIN d) \cup {k} |-> IF x = k THEN v ELSE d[x]]

DictDel(d, k) == [x \in (DOMAIN d) \ {k} |-> d[x]]

\* All orders in which the elements of S can be listed.
Orderings(S) ==
    {s \in [1..Cardinality(S) -> S] : \A i, j \in 1..Cardinality(S) : s[i] = s[j] => i = j}

(***************************************************************************)
(* VRMLWriter.findchildren: the joints whose parent is linkname, in        *)
(* joint-list order.                                                       *)
(***************************************************************************)
findchildren(md, linkname) ==
    SelectSeq(md.joints, LAMBDA j : j.parent = linkname)

(***************************************************************************)
(* VRMLWriter.convertjointtype; "raise" stands for the Exception.          *)
(***************************************************************************)
convertjointtype(t) ==
    CASE t = "J_FIXED" -> "fixed"
      [] t = "J_REVOLUTE" -> "rotate"
      [] t = "J_PRISMATIC" -> "slide"
      [] t = "J_SCREW" -> "rotate"
      [] OTHER -> "raise"

(***************************************************************************)
(* VRMLWriter.findroot.                                                    *)
(***************************************************************************)
RECURSIVE CountParents(_, _)
\* first loop: joints[j.parent] += 1, skipping parent 'world'
CountParents(js, d) ==
    IF js = <<>> THEN d
    ELSE LET j == Head(js) IN
         IF j.parent = World THEN CountParents(Tail(js), d)
         ELSE IF j.parent \in DOMAIN d
              THEN CountParents(Tail(js), DictSet(d, j.parent, d[j.parent] + 1))
              ELSE CountParents(Tail(js), DictSet(d, j.parent, 1))

RECURSIVE DelChildren(_, _)
\* second loop: del joints[j.child], KeyError ignored
DelChildren(js, d) ==
    IF js = <<>> THEN d
    ELSE DelChildren(Tail(js), DictDel(d, Head(js).child))

RootCounts(md) == DelChildren(md.joints, CountParents(md.joints, EmptyDict))

\* sorted(joints.items(), key=count, reverse=True): the sort is stable and
\* the order of dict.items() is the interpreter's hash order, so entries of
\* equal count may come out in any order.
findroot(md) ==
    LET d == RootCounts(md) IN
    {s \in Orderings(DOMAIN d) : \A i, j \in DOMAIN s : i < j => d[s[i]] >= d[s[j]]}

(***************************************************************************)
(* VRMLWriter.convertchildren.  The result is [exc, children]: exc is the  *)
(* exception that left the recursion ("none" if it returned), children the *)
(* list of nmodel dicts.  nmodel['link'] is <<link>> when the child is in  *)
(* _linkmap and <<>> when the KeyError was swallowed.                      *)
(***************************************************************************)
RECURSIVE convertlist(_, _, _, _)
convertlist(md, lm, cs, depth) ==
    IF depth > RecursionLimit THEN [exc |-> "RuntimeError", children |-> <<>>]
    ELSE IF cs = <<>> THEN [exc |-> "none", children |-> <<>>]
    ELSE LET cjoint == Head(cs)
             jt == convertjointtype(cjoint.jointType)
         IN  IF jt = "raise" THEN [exc |-> "Exception", children |-> <<>>]
             ELSE LET sub == convertlist(md, lm, findchildren(md, cjoint.child), depth + 1)
                  IN  IF sub.exc # "none" THEN sub
                      ELSE LET rest == convertlist(md, lm, Tail(cs), depth)
                               nmodel == [joint |-> cjoint,
                                          jointtype |-> jt,
                                          link |-> IF cjoint.child \in DOMAIN lm
                                                   THEN <<lm[cjoint.child]>> ELSE <<>>,
                                          children |-> sub.children]
                           IN  IF rest.exc # "none" THEN rest
                               ELSE [exc |-> "none",
                                     children |-> <<nmodel>> \o rest.children]

convertchildren(md, lm, linkname) ==
    convertlist(md, lm, findchildren(md, linkname), 1)

(***************************************************************************)
(* VRMLWriter.write, up to the call of the template engine.  rs is the     *)
(* list findroot returned.  The result holds the writer's fields after the *)
(* call (linkmap, roots), the values handed to the renderer, and the       *)
(* exception that ended the call, if any.                                  *)
(* The default of mdata.name from the file name and the rendering of the   *)
(* three templates read these values and change none of them; joint and    *)
(* link attributes that write only passes on (axis, limits, mass) are left *)
(* out of the records.                                                     *)
(***************************************************************************)
RECURSIVE UpdateLinkmap(_, _)
\* for m in mdata.links: self._linkmap[m.name] = m
UpdateLinkmap(ls, lm) ==
    IF ls = <<>> THEN lm
    ELSE UpdateLinkmap(Tail(ls), DictSet(lm, Head(ls).name, Head(ls)))

\* self._roots[1:]
OtherRoots(rs) == {rs[i] : i \in (DOMAIN rs) \ {1}}

\* "list non empty link"
NonEmptyLinks(md, rs) ==
    LET kept == SelectSeq(md.links, LAMBDA l : Len(l.visuals) > 0 /\ l.name \notin OtherRoots(rs))
    IN  [i \in DOMAIN kept |-> kept[i].name]

\* "list joint with parent"
JointsWithParent(md, rs, rt) ==
    LET ls == Range(NonEmptyLinks(md, rs))
        kept == SelectSeq(md.joints,
                          LAMBDA j : j.child \in ls /\ j.parent \notin OtherRoots(rs))
        js == [i \in DOMAIN kept |-> kept[i].name]
    IN  IF Len(js) = 0 THEN <<rt>> ELSE js

RECURSIVE ZeroAll(_, _)
\* for j in mdata.joints: jointmap[j.name] = 0
ZeroAll(js, jm) ==
    IF js = <<>> THEN jm ELSE ZeroAll(Tail(js), DictSet(jm, Head(js).name, 0))

RECURSIVE Number(_, _, _)
\* for j in joints: jointmap[j] = jointcount; jointcount = jointcount + 1
Number(js, jm, jointcount) ==
    IF js = <<>> THEN jm
    ELSE Number(Tail(js), DictSet(jm, Head(js), jointcount), jointcount + 1)

\* "assign jointId" with jointcount starting at 0 instead of 1
AssignJointId_FromZero(md, rt, js) ==
    Number(js, ZeroAll(md.joints, DictSet(EmptyDict, rt, 0)), 0)

\* "assign jointId"
AssignJointId(md, rt, js) ==
    Number(js, ZeroAll(md.joints, DictSet(EmptyDict, rt, 0)), 1)

Raised(lm, rs, e) ==
    [linkmap |-> lm, roots |-> rs, exc |-> e, root |-> "", rmodel |-> <<>>,
     links |-> <<>>, joints |-> <<>>, jointmap |-> EmptyDict]

write(md, lm0, rs) ==
    LET lm == UpdateLinkmap(md.links, lm0)
        rt == IF Len(rs) > 0 THEN rs[1] ELSE DefaultRoot
    IN  IF Len(rs) > 0 /\ rt \notin DOMAIN lm THEN Raised(lm, rs, "KeyError")
        ELSE IF Len(rs) = 0 /\ Len(md.links) = 0 THEN Raised(lm, rs, "IndexError")
        ELSE
          LET rootlink == IF Len(rs) > 0 THEN lm[rt] ELSE md.links[1]
              rootjoint == [name |-> rt, jointType |-> "fixed"]
              ls == NonEmptyLinks(md, rs)
              js == JointsWithParent(md, rs, rt)
              cc == convertchildren(md, lm, rt)
              nmodel == [link |-> rootlink,
                         joint |-> rootjoint,
                         jointtype |-> rootjoint.jointType,
                         children |-> cc.children]
          IN  IF cc.exc # "none" THEN Raised(lm, rs, cc.exc)
              ELSE [linkmap |-> lm, roots |-> rs, exc |-> "none", root |-> rt,
                    rmodel |-> <<nmodel>>, links |-> ls, joints |-> js,
                    jointmap |-> AssignJointId(md, rt, js)]

(***************************************************************************)
(* VRMLReader.  Python indexing: s[i] with -len(s) <= i < len(s), negative *)
(* indices counting from the end, IndexError otherwise.                    *)
(***************************************************************************)
PyInRange(s, i) == -Len(s) <= i /\ i < Len(s)

PyIndex(s, i) == IF i >= 0 THEN s[i + 1] ELSE s[Len(s) + i + 1]

\* numpy.array(flat).reshape(len(flat)/3, 3): the rows of three; numpy raises
\* ValueError when len(flat) is no multiple of 3 (len(flat)/3 rounds down).
Reshapes(flat) == Len(flat) % 3 = 0

Reshape(flat) ==
    [r \in 1..(Len(flat) \div 3) |-> <<flat[3 * r - 2], flat[3 * r - 1], flat[3 * r]>>]

RECURSIVE Thrice(_)
\* idx.append(i) three times for each i of the list
Thrice(s) == IF s = <<>> THEN <<>> ELSE <<Head(s), Head(s), Head(s)>> \o Thrice(Tail(s))

\* range(0, n)
PyRange(n) == [i \in 1..n |-> i - 1]

\* data every model.* constructor call of readLink starts from (model.py)
MeshData == [vertex |-> <<>>, vertex_index |-> <<>>, normal |-> <<>>,
             normal_index |-> <<>>, uvmap |-> <<>>, uvmap_index |-> <<>>,
             image |-> <<>>, material |-> <<>>]

\* the SP_MESH branch of readLink: [exc, data]
readMesh(sdata, b, mats) ==
    IF ~Reshapes(sdata.vertices) \/ ~Reshapes(sdata.triangles)
    THEN [exc |-> "ValueError", data |-> MeshData]
    ELSE IF ~PyInRange(b.appearances, sdata.appearanceIndex)
    THEN [exc |-> "IndexError", data |-> MeshData]
    ELSE
      LET adata == PyIndex(b.appearances, sdata.appearanceIndex)
          idx == IF adata.normalPerVertex
                 THEN IF Len(adata.normalIndices) > 0
                      THEN adata.normalIndices
                      ELSE Thrice(PyRange(Len(adata.normals) \div 3))
                 ELSE IF Len(adata.normalIndices) > 0
                      THEN Thrice(adata.normalIndices)
                      ELSE Thrice(PyRange(Len(adata.normals) \div 3))
      IN  IF ~Reshapes(adata.normals) \/ ~Reshapes(idx)
          THEN [exc |-> "ValueError", data |-> MeshData]
          ELSE IF ~PyInRange(mats, adata.materialIndex)
          THEN [exc |-> "IndexError", data |-> MeshData]
          ELSE [exc |-> "none",
                data |-> [MeshData EXCEPT
                            !.vertex = Reshape(sdata.vertices),
                            !.vertex_index = Reshape(sdata.triangles),
                            !.normal = Reshape(adata.normals),
                            !.normal_index = Reshape(idx),
                            !.material = <<PyIndex(mats, adata.materialIndex)>>]]

\* number of primitiveParameters each primitive branch of readLink reads
ParamsRead(t) ==
    CASE t = "SP_SPHERE" -> 1
      [] t = "SP_CYLINDER" -> 2
      [] t = "SP_BOX" -> 3
      [] OTHER -> 0

\* one pass of the loop over m.shapeIndices: [exc, sm]
readShape(s, b, mats) ==
    LET none == [name |-> s, shapeType |-> "", data |-> MeshData] IN
    IF ~PyInRange(b.shapes, s) THEN [exc |-> "IndexError", sm |-> none]
    ELSE
      LET sdata == PyIndex(b.shapes, s)
          t == sdata.primitiveType
      IN  IF t = "SP_MESH"
          THEN LET r == readMesh(sdata, b, mats) IN
               [exc |-> r.exc, sm |-> [name |-> s, shapeType |-> "SP_MESH", data |-> r.data]]
          ELSE IF t \in {"SP_SPHERE", "SP_CYLINDER", "SP_BOX"}
          THEN IF Len(sdata.primitiveParameters) < ParamsRead(t)
                  \/ ~PyInRange(mats, sdata.appearanceIndex)
               THEN [exc |-> "IndexError", sm |-> none]
               ELSE [exc |-> "none",
                     sm |-> [name |-> s, shapeType |-> t,
                             data |-> [MeshData EXCEPT
                                 !.material = <<PyIndex(mats, sdata.appearanceIndex)>>]]]
          ELSE [exc |-> "Exception", sm |-> none]

RECURSIVE readShapes(_, _, _)
readShapes(ss, b, mats) ==
    IF ss = <<>> THEN [exc |-> "none", visuals |-> <<>>]
    ELSE LET r == readShape(Head(ss), b, mats) IN
         IF r.exc # "none" THEN [exc |-> r.exc, visuals |-> <<>>]
         ELSE LET rest == readShapes(Tail(ss), b, mats) IN
              IF rest.exc # "none" THEN rest
              ELSE [exc |-> "none", visuals |-> <<r.sm>> \o rest.visuals]

\* VRMLReader.readLink: [exc, lm]
readLink(m, b, mats) ==
    LET r == readShapes(m.shapeIndices, b, mats) IN
    [exc |-> r.exc, lm |-> [name |-> m.name, visuals |-> r.visuals]]

\* the jointType tag readChild gives the joint, "raise" for the Exception
readJointType(t) ==
    CASE t = "fixed" -> "J_FIXED"
      [] t = "rotate" -> "J_REVOLUTE"
      [] t = "slide" -> "J_PRISMATIC"
      [] OTHER -> "raise"

\* VRMLReader.readChild for each index of cs in turn: [exc, links, joints],
\* the links and joints appended to self._links and self._joints.
RECURSIVE readChildren(_, _, _, _)
readChildren(parent, cs, b, mats) ==
    LET failed(e) == [exc |-> e, links |-> <<>>, joints |-> <<>>] IN
    IF cs = <<>> THEN failed("none")
    ELSE IF ~PyInRange(b.links, Head(cs)) THEN failed("IndexError")
    ELSE
      LET child == PyIndex(b.links, Head(cs))
          l == readLink(child, b, mats)
          jm == [name |-> parent.name \o child.name,
                 parent |-> parent.name,
                 child |-> child.name,
                 jointType |-> readJointType(child.jointType),
                 extra |-> FALSE]
      IN  IF l.exc # "none" THEN failed(l.exc)
          ELSE IF jm.jointType = "raise" THEN failed("Exception")
          ELSE LET sub == readChildren(child, child.childIndices, b, mats) IN
               IF sub.exc # "none" THEN failed(sub.exc)
               ELSE LET rest == readChildren(parent, Tail(cs), b, mats) IN
                    IF rest.exc # "none" THEN failed(rest.exc)
                    ELSE [exc |-> "none",
                          links |-> <<l.lm>> \o sub.links \o rest.links,
                          joints |-> <<jm>> \o sub.joints \o rest.joints]

\* jointType of a JointModel() no code of vrml.py assigns one to
JointModelDefaults == {"J_FIXED", "None"}

\* "extra joint for closed link models"; extra records where the joint came
\* from, the JointModel itself carries no such mark.
ExtraJoint(j, dflt) ==
    [name |-> j.name, parent |-> j.link[1], child |-> j.link[2],
     jointType |-> dflt, extra |-> TRUE]

\* VRMLReader.read after loadBodyInfo returned b: [exc, bm]
read(b, dflt) ==
    LET mats == [i \in DOMAIN b.materials |-> i - 1]
        failed(e) == [exc |-> e, bm |-> [links |-> <<>>, joints |-> <<>>]]
    IN  IF Len(b.links) = 0 THEN failed("IndexError")
        ELSE LET rt == b.links[1]
                 l == readLink(rt, b, mats)
             IN  IF l.exc # "none" THEN failed(l.exc)
                 ELSE LET r == readChildren(rt, rt.childIndices, b, mats) IN
                      IF r.exc # "none" THEN failed(r.exc)
                      ELSE [exc |-> "none",
                            bm |-> [links |-> <<l.lm>> \o r.links,
                                    joints |-> r.joints \o
                                      [i \in DOMAIN b.extraJoints |->
                                         ExtraJoint(b.extraJoints[i], dflt)]]]

(***************************************************************************)
(* ColladaReader.  A converted node is a record tagged by kind:            *)
(* "MeshTransformData", "MeshData", or "None" for Python's None.           *)
(***************************************************************************)
None == [kind |-> "None"]

\* model.MeshTransformData() as convertchild uses it: an empty children list
MeshTransformData == [kind |-> "MeshTransformData", matrix |-> <<>>, children |-> <<>>]

\* os.path.abspath(os.path.join(self._basepath, pr.image.path))
ImagePath(basepath, path) == <<basepath, path>>

\* what the caller's assethandler returns for fname
AssetHandle(fname) == <<"asset", fname>>

RECURSIVE SurfaceImage(_, _, _, _)
\* the loop over effect.params: every Surface assigns sm.image, the last wins
SurfaceImage(params, basepath, handler, image) ==
    IF params = <<>> THEN image
    ELSE LET pr == Head(params) IN
         IF pr.type = "Surface"
         THEN LET fname == ImagePath(basepath, pr.path) IN
              SurfaceImage(Tail(params), basepath, handler,
                           IF handler THEN <<AssetHandle(fname)>> ELSE <<fname>>)
         ELSE SurfaceImage(Tail(params), basepath, handler, image)

\* convertprimitive without the "except KeyError: pass": a primitive whose
\* material is not in the table yields no MeshData
convertprimitive_Unguarded(p, mats, basepath, handler) ==
    IF p.material \in DOMAIN mats
    THEN [kind |-> "MeshData",
          data |-> [MeshData EXCEPT
                      !.vertex = p.vertex, !.vertex_index = p.vertex_index,
                      !.image = SurfaceImage(mats[p.material].params, basepath,
                                             handler, <<>>)]]
    ELSE None

\* one pass of the loop over d.geometry.primitives: the MeshData appended
convertprimitive(p, mats, basepath, handler) ==
    LET sm0 == [MeshData EXCEPT !.vertex = p.vertex, !.vertex_index = p.vertex_index]
        sm1 == IF Len(p.normal) > 0
               THEN [sm0 EXCEPT !.normal = p.normal, !.normal_index = p.normal_index]
               ELSE sm0
        sm2 == IF Len(p.texcoordset) > 0
               THEN [sm1 EXCEPT !.uvmap = p.texcoordset[1],
                                !.uvmap_index = p.texcoord_indexset[1]]
               ELSE sm1
        sm3 == IF p.material \in DOMAIN mats
               THEN [sm2 EXCEPT !.image =
                        SurfaceImage(mats[p.material].params, basepath, handler, sm2.image)]
               ELSE sm2   \* except KeyError: pass
    IN  [kind |-> "MeshData", data |-> sm3]

\* ColladaReader.convertchild
RECURSIVE convertchild(_, _, _, _)
convertchild(d, mats, basepath, handler) ==
    IF d.type = "Node"
    THEN [MeshTransformData EXCEPT
            !.matrix = d.matrix,
            !.children = [i \in DOMAIN d.children |->
                            convertchild(d.children[i], mats, basepath, handler)]]
    ELSE IF d.type = "GeometryNode"
    THEN [MeshTransformData EXCEPT
            !.children = [i \in DOMAIN d.primitives |->
                            convertprimitive(d.primitives[i], mats, basepath, handler)]]
    ELSE None

RECURSIVE AddMaterials(_, _)
\* for m in d.materials: self._materials[m.id] = m
AddMaterials(ms, mats) ==
    IF ms = <<>> THEN mats
    ELSE AddMaterials(Tail(ms), DictSet(mats, Head(ms).id, Head(ms)))

\* ColladaReader.read after collada.Collada(f) returned c.d: [materials, m]
colladaread(c, mats0) ==
    LET mats == AddMaterials(c.d.materials, mats0)
        cms == [i \in DOMAIN c.d.nodes |->
                  convertchild(c.d.nodes[i], mats, c.basepath, c.assethandler)]
    IN  [materials |-> mats,
         m |-> [MeshTransformData EXCEPT
                  !.children = SelectSeq(cms, LAMBDA cm : cm # None)]]

(***************************************************************************)
(* The explored bodies.  Link names are unique within a body; a joint's    *)
(* parent is a link name or 'world', its child a link name; either may be  *)
(* missing from the body's link list.                                      *)
(***************************************************************************)
\* The names of S listed in NameOrder.
Listed(S) == SelectSeq(NameOrder, LAMBDA n : n \in S)

\* a box shape, as a link with visual geometry carries it
BoxShape == [name |-> 0, shapeType |-> "SP_BOX",
             data |-> [MeshData EXCEPT !.material = <<0>>]]

VisualsInputs == {<<>>, <<BoxShape>>}

\* link lists over the names S, the link f first
LinkListsOf(S, f) ==
    LET order == <<f>> \o Listed(S \ {f}) IN
    {[i \in DOMAIN order |-> [name |-> order[i], visuals |-> v[order[i]]]]
     : v \in [S -> VisualsInputs]}

LinkLists ==
    {<<>>} \cup UNION {UNION {LinkListsOf(S, f) : f \in S} : S \in (SUBSET Names) \ {{}}}

JointName(i) == <<"j1", "j2", "j3", "j4", "j5">>[i]

\* jointType of the i-th joint: the known tags in turn, or an unknown tag first
TypePatterns == {<<"J_REVOLUTE", "J_PRISMATIC", "J_SCREW", "J_FIXED">>,
                 <<"J_FIXED", "J_OTHER", "J_REVOLUTE", "J_SCREW">>}

TypeAt(pat, i) == pat[((i - 1) % Len(pat)) + 1]

Ends == (Names \cup {World}) \X Names

JointLists(max) ==
    UNION {UNION {{[i \in 1..n |-> [name |-> JointName(i), parent |-> e[i][1],
                                    child |-> e[i][2], jointType |-> TypeAt(pat, i),
                                    extra |-> FALSE]]
                   : e \in [1..n -> Ends]}
                  : pat \in TypePatterns}
           : n \in 0..max}

Bodies(max) == [links : LinkLists, joints : JointLists(max)]

\* Bodies whose joint names repeat or equal a link name; every link listed.
JointNames == {"j1", "A"}

NamedJointLists(max) ==
    UNION {{[i \in 1..n |-> [name |-> nm[i], parent |-> e[i][1], child |-> e[i][2],
                             jointType |-> "J_REVOLUTE", extra |-> FALSE]]
            : nm \in [1..n -> JointNames], e \in [1..n -> Ends]}
           : n \in 0..max}

NamedBodies(max) ==
    [links : LinkListsOf(Names, NameOrder[1]), joints : NamedJointLists(max)]

NoBody == [links |-> <<>>, joints |-> <<>>]

(***************************************************************************)
(* The explored BodyInfo values.  The model loader returns a tree of links *)
(* (childIndices), the root first, and the extra joints of closed loops.   *)
(***************************************************************************)
BoxData == [primitiveType |-> "SP_BOX", primitiveParameters |-> <<1, 1, 1>>,
            appearanceIndex |-> 0, vertices |-> <<>>, triangles |-> <<>>]

\* childIndices of link i when par[k] is the parent of link k
ChildIndices(par, i) ==
    LET ks == SelectSeq([k \in 1..Len(NameOrder) |-> k],
                        LAMBDA k : k \in DOMAIN par /\ par[k] = i)
    IN  [x \in DOMAIN ks |-> ks[x] - 1]

HrpTrees ==
    UNION {{[i \in 1..n |-> [name |-> NameOrder[i],
                             jointType |-> jt[i],
                             childIndices |-> ChildIndices(par, i),
                             shapeIndices |-> sh[i]]]
            : par \in {f \in [2..n -> 1..n] : \A k \in 2..n : f[k] < k},
              jt \in [1..n -> {"fixed", "rotate", "slide", "free"}],
              sh \in [1..n -> {<<>>, <<0>>}]}
           : n \in 1..Len(NameOrder)}

ExtraName(i) == <<"x1", "x2", "x3">>[i]

ExtraJointLists(max) ==
    UNION {{[i \in 1..n |-> [name |-> ExtraName(i), link |-> e[i]]]
            : e \in [1..n -> Names \X Names]}
           : n \in 0..max}

BodyInfos(max) ==
    {[links |-> t, shapes |-> <<BoxData>>, appearances |-> <<>>,
      materials |-> <<"m">>, extraJoints |-> x]
     : t \in {u \in HrpTrees : u[1].jointType = "fixed"}, x \in ExtraJointLists(max)}

(***************************************************************************)
(* BodyInfo values of one link with one shape, for the mesh records        *)
(* readLink builds.  Vertex coordinates are numbered so that rows can be   *)
(* told apart; triangles are the fans <<0, i, i+1>>, whose largest index   *)
(* may exceed the vertex count.                                            *)
(***************************************************************************)
Floats(n) == [i \in 1..n |-> i]

RECURSIVE Flatten(_)
Flatten(rows) == IF rows = <<>> THEN <<>> ELSE Head(rows) \o Flatten(Tail(rows))

FanRows(maxv) == {<<0, i, i + 1>> : i \in 1..maxv}

TriangleLists(maxv, maxt) ==
    UNION {{Flatten(t) : t \in [1..n -> FanRows(maxv)]} : n \in 0..maxt}

MeshInputs(maxv, maxt) ==
    {[links |-> <<[name |-> "A", jointType |-> "fixed", childIndices |-> <<>>,
                   shapeIndices |-> <<0>>]>>,
      shapes |-> <<[primitiveType |-> "SP_MESH", primitiveParameters |-> <<>>,
                    appearanceIndex |-> 0, vertices |-> Floats(3 * nv + r),
                    triangles |-> t]>>,
      appearances |-> <<[normalPerVertex |-> npv, normals |-> Floats(3 * nn),
                         normalIndices |-> IF ni THEN t ELSE <<>>,
                         materialIndex |-> mi]>>,
      materials |-> <<"m">>,
      extraJoints |-> <<>>]
     : nv \in 0..maxv, r \in {0, 1}, t \in TriangleLists(maxv, maxt),
       npv \in BOOLEAN, nn \in 0..maxv, ni \in BOOLEAN, mi \in {-1, 0, 1}}

PrimitiveInputs ==
    {[links |-> <<[name |-> "A", jointType |-> "fixed", childIndices |-> <<>>,
                   shapeIndices |-> <<s>>]>>,
      shapes |-> <<[primitiveType |-> t, primitiveParameters |-> Floats(np),
                    appearanceIndex |-> 0, vertices |-> <<>>, triangles |-> <<>>]>>,
      appearances |-> <<>>,
      materials |-> <<"m">>,
      extraJoints |-> <<>>]
     : s \in {0, 1}, np \in 0..3,
       t \in {"SP_SPHERE", "SP_CYLINDER", "SP_BOX", "SP_OTHER"}}

(***************************************************************************)
(* The explored collada documents: scene nodes of kind Node (with child    *)
(* nodes), GeometryNode (with primitives) or another kind, and materials   *)
(* whose effect parameters may hold a Surface with an image.               *)
(***************************************************************************)
Triangle == [vertex |-> <<<<0, 0, 0>>, <<1, 0, 0>>, <<0, 1, 0>>>>,
             vertex_index |-> <<<<0, 1, 2>>>>]

Primitives ==
    {[vertex |-> Triangle.vertex, vertex_index |-> Triangle.vertex_index,
      normal |-> IF n THEN <<<<0, 0, 1>>>> ELSE <<>>,
      normal_index |-> IF n THEN <<<<0, 0, 0>>>> ELSE <<>>,
      texcoordset |-> IF t THEN <<<<<<0, 0>>, <<1, 0>>, <<0, 1>>>>>> ELSE <<>>,
      texcoord_indexset |-> IF t THEN <<<<<<0, 1, 2>>>>>> ELSE <<>>,
      material |-> m]
     : n \in BOOLEAN, t \in BOOLEAN, m \in {"m1", "m2", "None"}}

GeometryNodes ==
    {[type |-> "GeometryNode", primitives |-> <<p>>] : p \in Primitives}
    \cup {[type |-> "GeometryNode", primitives |-> ps]
          : ps \in {<<>>, <<CHOOSE p \in Primitives : p.material = "m1",
                            CHOOSE p \in Primitives : p.material = "m2">>}}

OtherNode == [type |-> "CameraNode"]

LeafNodes == GeometryNodes \cup {OtherNode}

SceneNodes ==
    LeafNodes
    \cup {[type |-> "Node", matrix |-> <<1>>, children |-> <<>>]}
    \cup {[type |-> "Node", matrix |-> <<1>>, children |-> <<c>>] : c \in LeafNodes}

MaterialLists ==
    {<<>>,
     <<[id |-> "m1", params |-> <<[type |-> "Surface", path |-> "a.png"]>>]>>,
     <<[id |-> "m1", params |-> <<[type |-> "Sampler2D", path |-> ""]>>]>>,
     <<[id |-> "m1", params |-> <<[type |-> "Surface", path |-> "a.png"],
                                 [type |-> "Surface", path |-> "b.png"]>>],
       [id |-> "m2", params |-> <<>>]>>}

Documents(max) ==
    {[basepath |-> "dir", assethandler |-> h,
      d |-> [materials |-> ms, nodes |-> ns]]
     : h \in BOOLEAN, ms \in MaterialLists,
       ns \in UNION {[1..n -> SceneNodes] : n \in 0..max}}

Idle ==
    /\ linkmap = EmptyDict
    /\ roots = <<>>
    /\ root = ""
    /\ rmodel = <<>>
    /\ links = <<>>
    /\ joints = <<>>
    /\ jointmap = EmptyDict
    /\ exc = "none"
    /\ materials = EmptyDict
    /\ mesh = None

Init ==
    /\ pc = "write"
    /\ mdata \in Bodies(MaxJoints)
    /\ hrp = <<>>
    /\ doc = <<>>
    /\ Idle

InitJointmap ==
    /\ pc = "write"
    /\ mdata \in NamedBodies(MaxNamed)
    /\ hrp = <<>>
    /\ doc = <<>>
    /\ Idle

InitRead ==
    /\ pc = "read"
    /\ mdata = NoBody
    /\ hrp \in BodyInfos(MaxExtra)
    /\ doc = <<>>
    /\ Idle

InitMesh ==
    /\ \/ pc = "read" /\ hrp \in MeshInputs(MaxVertices, MaxTriangles) \cup PrimitiveInputs
          /\ doc = <<>>
       \/ pc = "collada" /\ hrp = <<>> /\ doc \in Documents(MaxNodes)
    /\ mdata = NoBody
    /\ Idle

\* VRMLReader.read
Read ==
    /\ pc = "read"
    /\ \E dflt \in JointModelDefaults :
         LET r == read(hrp, dflt) IN
           /\ mdata' = r.bm
           /\ exc' = r.exc
           /\ pc' = IF r.exc = "none" THEN "write" ELSE "done"
    /\ UNCHANGED <<linkmap, roots, root, rmodel, links, joints, jointmap,
                   hrp, doc, materials, mesh>>

\* VRMLWriter.write
Write ==
    /\ pc = "write"
    /\ \E rs \in findroot(mdata) :
         LET r == write(mdata, linkmap, rs) IN
           /\ linkmap' = r.linkmap
           /\ roots' = r.roots
           /\ root' = r.root
           /\ rmodel' = r.rmodel
           /\ links' = r.links
           /\ joints' = r.joints
           /\ jointmap' = r.jointmap
           /\ exc' = r.exc
    /\ pc' = "done"
    /\ UNCHANGED <<mdata, hrp, doc, materials, mesh>>

\* ColladaReader.read
ColladaRead ==
    /\ pc = "collada"
    /\ LET r == colladaread(doc, materials) IN
         /\ materials' = r.materials
         /\ mesh' = r.m
    /\ pc' = "done"
    /\ UNCHANGED <<mdata, linkmap, roots, root, rmodel, links, joints, jointmap,
                   exc, hrp>>
    /\ UNCHANGED doc

\* The owner of a VRMLWriter calls write(mdata, fname) once more: the instance
\* (self._linkmap, self._roots) is the same, mdata is another Body, and what
\* the previous call handed to the renderer is gone.
WriteAgain ==
    /\ pc = "done"
    /\ mesh = None
    /\ pc' = "write"
    /\ mdata' \in Bodies(MaxReuse)
    /\ root' = ""
    /\ rmodel' = <<>>
    /\ links' = <<>>
    /\ joints' = <<>>
    /\ jointmap' = EmptyDict
    /\ exc' = "none"
    /\ UNCHANGED <<linkmap, roots, hrp, doc, materials, mesh>>

\* The owner of a ColladaReader calls read(f) once more: the instance
\* (self._materials) is the same, f is another document, and the previous
\* call's return value stays with the caller.
ColladaReadAgain ==
    /\ pc = "done"
    /\ mesh # None
    /\ pc' = "collada"
    /\ doc' \in Documents(MaxReuse)
    /\ UNCHANGED <<mdata, linkmap, roots, root, rmodel, links, joints, jointmap,
                   exc, hrp, materials, mesh>>

Next == Write

NextRead == Read \/ Write

NextMesh == Read \/ ColladaRead

\* VRMLWriter.write on any body
Spec == Init /\ [][Next]_vars

\* VRMLWriter.write on bodies with repeated joint names
SpecJointmap == InitJointmap /\ [][Next]_vars

\* VRMLReader.read, then VRMLWriter.write on the body it returned
SpecRead == InitRead /\ [][NextRead]_vars

\* the mesh records of VRMLReader.read and ColladaReader.read
SpecMesh == InitMesh /\ [][NextMesh]_vars

\* one VRMLWriter, or one ColladaReader, used for one conversion after another
InitReuse ==
    /\ \/ pc = "write" /\ mdata \in Bodies(MaxReuse) /\ doc = <<>>
       \/ pc = "collada" /\ mdata = NoBody /\ doc \in Documents(MaxReuse)
    /\ hrp = <<>>
    /\ Idle

NextReuse == Write \/ WriteAgain \/ ColladaRead \/ ColladaReadAgain

SpecReuse == InitReuse /\ [][NextReuse]_vars

(***************************************************************************)
(* Graph notions the properties use.  The joint graph of a body has the    *)
(* names its joints mention as nodes ('world' included) and one edge       *)
(* parent -> child per joint.                                              *)
(***************************************************************************)
Nodes(js) == {js[i].parent : i \in DOMAIN js} \cup {js[i].child : i \in DOMAIN js}

Succ(js, S) == {js[i].child : i \in {k \in DOMAIN js : js[k].parent \in S}}

Adjacent(js, S) ==
    Succ(js, S) \cup {js[i].parent : i \in {k \in DOMAIN js : js[k].child \in S}}

RECURSIVE Descendants(_, _)
\* the nodes reached from S along one or more edges
Descendants(js, S) ==
    LET T == S \cup Succ(js, S) IN
    IF T = S THEN Succ(js, S) ELSE Descendants(js, T)

RECURSIVE Component(_, _)
Component(js, S) ==
    LET T == S \cup Adjacent(js, S) IN
    IF T = S THEN S ELSE Component(js, T)

Components(js) == {Component(js, {n}) : n \in Nodes(js)}

HasCycle(js) == \E n \in Nodes(js) : n \in Descendants(js, {n})

\* a forest: no cycle, and no node is the child of two joints
IsForest(js) ==
    /\ ~HasCycle(js)
    /\ \A i, k \in DOMAIN js : js[i].child = js[k].child => i = k

Ordinary(js) == SelectSeq(js, LAMBDA j : ~j.extra)

LinkNames(md) == {md.links[i].name : i \in DOMAIN md.links}

RECURSIVE TreeEdges(_)
\* the nested tree flattened: the (parent, child) pair of every nmodel below
\* the root node, parents before children
TreeEdges(children) ==
    IF children = <<>> THEN <<>>
    ELSE <<<<Head(children).joint.parent, Head(children).joint.child>>>>
         \o TreeEdges(Head(children).children) \o TreeEdges(Tail(children))

RECURSIVE TreeJoints(_)
TreeJoints(children) ==
    IF children = <<>> THEN <<>>
    ELSE <<Head(children).joint>> \o TreeJoints(Head(children).children)
         \o TreeJoints(Tail(children))

Returned == pc = "done" /\ exc = "none"

\* a joint names a link that is not in the link list
Dangling(md) ==
    \E i \in DOMAIN md.joints :
        \/ md.joints[i].child \notin LinkNames(md)
        \/ md.joints[i].parent \notin LinkNames(md) \cup {World}

(***************************************************************************)
(* C1: for a body whose joints form a forest, findroot returns exactly one *)
(* candidate per connected component of the joint graph, and no candidate  *)
(* is the child of a joint.  Stated for bodies all of whose links are      *)
(* listed.                                                                 *)
(***************************************************************************)
C1_RootPerComponent ==
    (pc = "done" /\ IsForest(mdata.joints) /\ ~Dangling(mdata)) =>
        /\ Len(roots) = Cardinality(Components(mdata.joints))
        /\ \A c \in Components(mdata.joints) :
             Cardinality({i \in DOMAIN roots : roots[i] \in c}) = 1
        /\ \A i \in DOMAIN roots : \A k \in DOMAIN mdata.joints :
             roots[i] # mdata.joints[k].child

(***************************************************************************)
(* C2: when the ordinary joints of the body contain a directed cycle, the  *)
(* tree build ends with a cycle-detected error: it neither returns         *)
(* normally nor runs into the interpreter's recursion limit.               *)
(***************************************************************************)
C2_CycleDetected ==
    (pc = "done" /\ HasCycle(Ordinary(mdata.joints))) =>
        exc \notin {"none", "RuntimeError"}

(***************************************************************************)
(* C3: when findroot yields no candidate, the tree has a single root node  *)
(* whose link is named by the default root name and whose root joint is    *)
(* of fixed type.                                                          *)
(***************************************************************************)
C3_DefaultRootLink ==
    (Returned /\ roots = <<>>) =>
        /\ Len(rmodel) = 1
        /\ root = DefaultRoot
        /\ rmodel[1].link.name = root
        /\ rmodel[1].joint.jointType = "fixed"

(***************************************************************************)
(* C4: flattening the tree gives exactly the (parent, child) pairs of the  *)
(* joints whose links are not elided, each once.  A link is elided when it *)
(* is not in the non-empty link list; a joint is kept when its child is in *)
(* that list and its parent is no second or later root.  Stated for        *)
(* forests all of whose links are listed, where no pair repeats.           *)
(***************************************************************************)
KeptEdges(es) == SelectSeq(es, LAMBDA e : e[2] \in Range(links))

JointEdges ==
    LET kept == SelectSeq(mdata.joints,
                   LAMBDA j : /\ j.child \in Range(links)
                              /\ j.parent \notin OtherRoots(roots)
                              /\ j.parent # World)
    IN  [i \in DOMAIN kept |-> <<kept[i].parent, kept[i].child>>]

C4_RoundTrip ==
    (Returned /\ IsForest(mdata.joints) /\ ~Dangling(mdata)) =>
        /\ Range(KeptEdges(TreeEdges(rmodel[1].children))) = Range(JointEdges)
        /\ Len(KeptEdges(TreeEdges(rmodel[1].children))) = Len(JointEdges)

(***************************************************************************)
(* C6: when a joint names a parent (other than 'world') or a child that is *)
(* not in the body's link list, the conversion does not return normally.   *)
(***************************************************************************)
C6_StructuralError ==
    (pc = "done" /\ Dangling(mdata)) => exc # "none"

(***************************************************************************)
(* C5: the closed-loop (extra) joints of a body VRMLReader.read returned   *)
(* take no part in the tree build: findroot counts none of them,           *)
(* findchildren returns none of them, and no tree node carries one.        *)
(* Stated for bodies all of whose joints name listed links.                *)
(***************************************************************************)
C5_LoopJointsApart ==
    (pc = "done" /\ hrp # <<>> /\ ~Dangling(mdata)) =>
        /\ RootCounts(mdata) = RootCounts([mdata EXCEPT !.joints = Ordinary(mdata.joints)])
        /\ \A n \in Nodes(mdata.joints) :
             \A i \in DOMAIN findchildren(mdata, n) : ~findchildren(mdata, n)[i].extra
        /\ \A i \in DOMAIN TreeJoints(rmodel) :
             "extra" \in DOMAIN TreeJoints(rmodel)[i] => ~TreeJoints(rmodel)[i].extra

(***************************************************************************)
(* C7: no mesh is built whose triangle list holds a vertex index greater   *)
(* than or equal to the number of vertices: reading such a shape fails.    *)
(***************************************************************************)
IndicesInRange(data) ==
    \A r \in DOMAIN data.vertex_index : \A k \in 1..3 :
        data.vertex_index[r][k] < Len(data.vertex)

RECURSIVE MeshDatas(_)
\* the MeshData records of a converted collada node list
MeshDatas(children) ==
    IF children = <<>> THEN {}
    ELSE LET c == Head(children) IN
         (CASE c.kind = "MeshData" -> {c.data}
            [] c.kind = "MeshTransformData" -> MeshDatas(c.children)
            [] OTHER -> {})
         \cup MeshDatas(Tail(children))

C7_IndexBounds ==
    /\ \A i \in DOMAIN mdata.links : \A v \in DOMAIN mdata.links[i].visuals :
         mdata.links[i].visuals[v].shapeType = "SP_MESH" =>
             IndicesInRange(mdata.links[i].visuals[v].data)
    /\ mesh # None => \A data \in MeshDatas(mesh.children) : IndicesInRange(data)

(***************************************************************************)
(* C8: for a mesh with one normal per vertex and no explicit normal        *)
(* indices, the normal index list readLink builds equals the triangle      *)
(* vertex index list.  Stated for meshes with at least one vertex and one   *)
(* triangle whose triangle indices are all in range.                       *)
(***************************************************************************)
C8_ImplicitNormals ==
    \A i \in DOMAIN mdata.links : \A v \in DOMAIN mdata.links[i].visuals :
        LET sm == mdata.links[i].visuals[v] IN
        (/\ sm.shapeType = "SP_MESH"
         /\ hrp.appearances[1].normalPerVertex
         /\ hrp.appearances[1].normalIndices = <<>>
         /\ Len(sm.data.normal) = Len(sm.data.vertex)
         /\ Len(sm.data.vertex) > 0
         /\ Len(sm.data.vertex_index) > 0
         /\ IndicesInRange(sm.data)) =>
            sm.data.normal_index = sm.data.vertex_index

(***************************************************************************)
(* C9: a primitive whose material id is not in the materials table is      *)
(* still converted: its MeshData stands at the primitive's place among the *)
(* children of the node converted from its geometry node, with the         *)
(* primitive's vertex and index data and with no image.                    *)
(***************************************************************************)
RECURSIVE MissTolerated(_, _)
MissTolerated(d, m) ==
    CASE d.type = "GeometryNode" ->
           /\ m.kind = "MeshTransformData"
           /\ Len(m.children) = Len(d.primitives)
           /\ \A i \in DOMAIN d.primitives :
                d.primitives[i].material \notin DOMAIN materials =>
                    /\ m.children[i].kind = "MeshData"
                    /\ m.children[i].data.vertex = d.primitives[i].vertex
                    /\ m.children[i].data.vertex_index = d.primitives[i].vertex_index
                    /\ m.children[i].data.image = <<>>
      [] d.type = "Node" ->
           /\ m.kind = "MeshTransformData"
           /\ Len(m.children) = Len(d.children)
           /\ \A i \in DOMAIN d.children : MissTolerated(d.children[i], m.children[i])
      [] OTHER -> m = None

\* the scene nodes read() keeps: convertchild returns None for the others
KeptNodes == SelectSeq(doc.d.nodes, LAMBDA n : n.type \in {"Node", "GeometryNode"})

C9_MaterialMiss ==
    (pc = "done" /\ doc # <<>>) =>
        /\ exc = "none"
        /\ Len(mesh.children) = Len(KeptNodes)
        /\ \A i \in DOMAIN KeptNodes : MissTolerated(KeptNodes[i], mesh.children[i])

\* a document with a material table was read, and a primitive of a top-level
\* geometry node names a material that is not in it
C9_Witness ==
    /\ pc = "done" /\ doc # <<>>
    /\ materials # EmptyDict
    /\ \E i \in DOMAIN KeptNodes :
         /\ KeptNodes[i].type = "GeometryNode"
         /\ \E k \in DOMAIN KeptNodes[i].primitives :
              /\ KeptNodes[i].primitives[k].material = "m2"
              /\ "m2" \notin DOMAIN materials
              /\ mesh.children[i].children[k].data.image = <<>>

(***************************************************************************)
(* C10 as stated: in the joint index map the root has the smallest number  *)
(* and no two distinct names share a number.                               *)
(***************************************************************************)
C10_NumberedOnce ==
    Returned =>
        /\ \A n \in DOMAIN jointmap : jointmap[root] <= jointmap[n]
        /\ \A n, m \in DOMAIN jointmap : jointmap[n] = jointmap[m] => n = m

(***************************************************************************)
(* C10 amended: the joint index map has an entry for the root and for      *)
(* every joint name of the body.  A name of the filtered joint list (which *)
(* is the root alone when no joint passes the filter) has its position in  *)
(* that list as number, counted from 1, the last position if the name      *)
(* occurs more than once; every other name, the root included, has 0.      *)
(***************************************************************************)
LastPos(s, n) ==
    IF n \in Range(s)
    THEN CHOOSE i \in DOMAIN s : s[i] = n /\ \A k \in DOMAIN s : s[k] = n => k <= i
    ELSE 0

C10_JointIds ==
    Returned =>
        /\ DOMAIN jointmap = {root} \cup {mdata.joints[i].name : i \in DOMAIN mdata.joints}
        /\ \A n \in DOMAIN jointmap : jointmap[n] = LastPos(joints, n)

\* write returned a map in which a joint left out of the filtered list has
\* number 0 like the root, and a joint of the list is numbered 1
C10_Witness ==
    /\ Returned
    /\ roots # <<>>
    /\ jointmap[root] = 0
    /\ \E n \in DOMAIN jointmap : n # root /\ jointmap[n] = 0
    /\ \E n \in DOMAIN jointmap : n \in Range(joints) /\ jointmap[n] = 1

(***************************************************************************)
(* C11: no mutable state is shared across conversions.  After any sequence *)
(* of conversions on one VRMLWriter the outcome of the last write (the     *)
(* exception it ended in and the tree it handed to the renderer) is the    *)
(* outcome a fresh VRMLWriter has for the same Body, and after any         *)
(* sequence of reads on one ColladaReader the mesh tree of the last read   *)
(* is the one a fresh ColladaReader returns for the same document; so a    *)
(* link name or material id recorded by an earlier conversion never        *)
(* resolves in a later conversion whose input does not contain it.         *)
(***************************************************************************)
\* write on a VRMLWriter just constructed, the same order of roots
FreshWrite == write(mdata, EmptyDict, roots)

\* read on a ColladaReader just constructed
FreshRead == colladaread(doc, EmptyDict)

WriterDone == pc = "done" /\ mesh = None

ReaderDone == pc = "done" /\ mesh # None

\* the VRMLWriter half
C11_WriterFresh == WriterDone => exc = FreshWrite.exc /\ rmodel = FreshWrite.rmodel

\* the ColladaReader half
C11_ReaderFresh == ReaderDone => mesh = FreshRead.m

\* C11: every conversion on a used instance has the outcome of a fresh one
C11_NoSharedState == C11_WriterFresh /\ C11_ReaderFresh

\* when the instance holds no name beyond those of the input (its first
\* conversion, for one) the outcome is the fresh one
C11_NoStaleName ==
    /\ (WriterDone /\ DOMAIN linkmap = LinkNames(mdata)) =>
          exc = FreshWrite.exc /\ rmodel = FreshWrite.rmodel
    /\ (ReaderDone /\ DOMAIN materials = {doc.d.materials[i].id : i \in DOMAIN doc.d.materials}) =>
          mesh = FreshRead.m

====
